---- MODULE Spec2Model ----
(***************************************************************************)
(* Model of sticker-dream's printer subsystem and of the code that drives  *)
(* it: the HTTP handlers of src/src/server.ts and the browser client of    *)
(* src/unnamed/part_000.  The printing library the server imports          *)
(* ('./print.ts': getAllPrinters, printImage, printToUSB,                  *)
(* watchAndResumePrinters) is not part of the sources; its operations are  *)
(* modelled from the design document (PrinterRegistry, TargetResolver,     *)
(* JobSubmitter, QueueWatcher).                                            *)
(***************************************************************************)
EXTENDS Integers, Sequences, FiniteSets, TLC

----------------------------------------------------------------------------
(* Names *)

\* the names of the printers the host can have installed
PrinterNames == {"A", "B"}

\* a name no printer ever has
UnknownName == "Z"

\* an absent header / query parameter / localStorage item (falsy in the code)
NoName == ""

\* the values a printer-name hint can take
Hints == PrinterNames \cup {UnknownName, NoName}

----------------------------------------------------------------------------
(* Data model *)

Statuses == {"Idle", "Printing", "Paused", "Error", "Offline", "Unknown"}

\* a printer as the host's print subsystem knows it
HostPrinters == [name : PrinterNames, isUSB : BOOLEAN, status : Statuses]

Range(s) == {s[i] : i \in DOMAIN s}

UniqueNames(s) == \A i, j \in DOMAIN s : s[i].name = s[j].name => i = j

\* the states of the host's print subsystem: the installed printers, in the
\* order the host lists them, and the name of the system default ("" if none)
HostPrinterLists ==
  {s \in UNION {[1..n -> HostPrinters] : n \in 0..Cardinality(PrinterNames)} : UniqueNames(s)}

Hosts ==
  {h \in [printers : HostPrinterLists, default : PrinterNames \cup {NoName}] :
     h.default = NoName \/ \E i \in DOMAIN h.printers : h.printers[i].name = h.default}

\* enumerate(): the snapshot a successful enumeration of host state h produces
Enumerate(h) ==
  [i \in DOMAIN h.printers |->
     [name      |-> h.printers[i].name,
      isDefault |-> (h.printers[i].name = h.default),
      isUSB     |-> h.printers[i].isUSB,
      status    |-> h.printers[i].status]]

----------------------------------------------------------------------------
(* TargetResolver *)

\* usable status: not Offline / Error
Usable(p) == p.status \notin {"Offline", "Error"}

Min(S) == CHOOSE i \in S : \A j \in S : i <= j

\* the first of the indices S, 0 if there is none
FirstIndex(S) == IF S = {} THEN 0 ELSE Min(S)

Resolved(p) == [ok |-> TRUE, printerName |-> p.name, isUSB |-> p.isUSB, error |-> ""]

ResolutionError(e) == [ok |-> FALSE, printerName |-> NoName, isUSB |-> FALSE, error |-> e]

\* get(name): the index of the printer called name in snap, 0 if absent
get(name, snap) == FirstIndex({i \in DOMAIN snap : snap[i].name = name})

\* step 1: a printer named by the caller is used or the resolution fails
ResolveExplicit(name, snap) ==
  LET e == get(name, snap)
  IN  IF e = 0 THEN ResolutionError("PrinterNotFound")
      ELSE IF ~Usable(snap[e]) THEN ResolutionError("PrinterUnusable")
      ELSE Resolved(snap[e])

\* steps 3 to 5: the usable default, else the first usable USB printer
ResolveFallback(snap) ==
  LET d == FirstIndex({i \in DOMAIN snap : snap[i].isDefault /\ Usable(snap[i])})
      u == FirstIndex({i \in DOMAIN snap : snap[i].isUSB /\ Usable(snap[i])})
  IN  IF d # 0 THEN Resolved(snap[d])
      ELSE IF u # 0 THEN Resolved(snap[u])
      ELSE ResolutionError("NoUsablePrinter")

\* resolve(explicitName?, lastSelected?, snapshot), first match wins
resolve(explicitName, lastSelected, snap) ==
  LET l == get(lastSelected, snap)
  IN  IF explicitName # NoName THEN ResolveExplicit(explicitName, snap)
      ELSE IF lastSelected # NoName /\ l # 0 /\ Usable(snap[l]) THEN Resolved(snap[l])
      ELSE ResolveFallback(snap)

\* the target printImage(printerName, ...) prints to
printImageTarget(printerName, snap) == ResolveExplicit(printerName, snap)

\* the target printToUSB(...) prints to: no name hint at all
printToUSBTarget(snap) == resolve(NoName, NoName, snap)

----------------------------------------------------------------------------
(* State *)

VARIABLES
  host,            \* the host's print subsystem: its printers and its default
  hostChanges,     \* how often the host's printers have changed so far
  snapshot,        \* PrinterRegistry: the current snapshot, a sequence of Printers
  lastRefresh,     \* PrinterRegistry: how the last refresh ended
  prior,           \* the snapshot the last successful refresh replaced
  latest,          \* the complete enumeration the last successful refresh got
  observed,        \* what a reader of the snapshot saw last
  listReq,         \* GET /api/printers: the request being handled
  listResp,        \* GET /api/printers: the last response sent
  req,             \* the print submission in progress
  job,             \* the PrintJob of that submission
  transportCalls,  \* device writes / spooler enqueues issued for that submission
  result,          \* what printImage / printToUSB / submit returned or threw
  resp,            \* the HTTP response of POST /api/print
  usb,             \* concurrent print requests on the USB-direct path
  watcher,         \* QueueWatcher: the state of each polling loop
  inFlight,        \* resume calls in flight, per printer name
  ticks,           \* polling ticks started so far
  stored,          \* client: localStorage['selectedPrinter'] ("" when absent)
  selectedPrinter, \* client: the selected printer's name ("" for null)
  options,         \* client: the options of the printer select
  selectValue,     \* client: printerSelect.value
  loadPc,          \* client: where loadPrinters() is
  currentImageBlob,\* client: whether a generated image is held
  printBtn,        \* client: the print button
  printPc,         \* client: where the print click handler is
  printHeader,     \* client: the X-Printer-Name header of the request sent
  clientSends,     \* client: print requests sent for the last click
  alertMsg,        \* client: the alert the last click raised ("" for none)
  rec              \* client: the recorder, its events and the processing pipeline

printVars == <<req, job, transportCalls, result, resp, usb>>

hostVars == <<host, hostChanges>>

registryVars == <<snapshot, lastRefresh, prior, latest, observed>>

listVars == <<listReq, listResp>>

watcherVars == <<watcher, inFlight, ticks>>

clientVars ==
  <<stored, selectedPrinter, options, selectValue, loadPc, currentImageBlob,
    printBtn, printPc, printHeader, clientSends, alertMsg, rec>>

serverVars == <<hostVars, registryVars, listVars, printVars, watcherVars>>

vars == <<serverVars, clientVars>>

NoRequest ==
  [pc |-> "idle", via |-> "none", hint |-> NoName, copies |-> 0,
   printerName |-> NoName, isUSB |-> FALSE]

NoJob == [printerName |-> NoName, copies |-> 0, status |-> "None", written |-> "none"]

NoResult == [ok |-> FALSE, printerName |-> NoName, jobId |-> 0, error |-> ""]

NoResponse == [status |-> 0, printerName |-> NoName, jobId |-> 0, error |-> ""]

\* how many print requests are handled at the same time
MaxRequests == 2

Requests == 1..MaxRequests

\* how many raw writes the image of one job takes
ChunksPerJob == 2

\* no request has arrived, no device is locked, nothing was written
InitUsb ==
  [reqs |-> [r \in Requests |-> [pc |-> "idle", printerName |-> NoName, sent |-> 0]],
   lock |-> [n \in PrinterNames |-> 0],
   acquired |-> [n \in PrinterNames |-> <<>>],
   stream |-> [n \in PrinterNames |-> <<>>]]

InitPrint ==
  /\ req = NoRequest
  /\ job = NoJob
  /\ transportCalls = 0
  /\ result = NoResult
  /\ resp = NoResponse
  /\ usb = InitUsb

----------------------------------------------------------------------------
(* The host's print subsystem *)

\* how many changes of the host's printers a behaviour follows
MaxHostChanges == 2

\* the host as the design's first scenario has it: A the default on the
\* spooler, B on USB, both idle
ScenarioHost ==
  [printers |-> <<[name |-> "A", isUSB |-> FALSE, status |-> "Idle"],
                  [name |-> "B", isUSB |-> TRUE, status |-> "Idle"]>>,
   default |-> "A"]

RemoveAt(s, i) == [j \in 1..(Len(s) - 1) |-> IF j < i THEN s[j] ELSE s[j + 1]]

\* a printer changes its status (a job starts, the queue is held, it jams...)
HostSetStatus(i, st) ==
  /\ i \in DOMAIN host.printers
  /\ host.printers[i].status # st
  /\ host' = [host EXCEPT !.printers[i].status = st]

\* the operator makes another printer, or none, the system default
HostSetDefault(name) ==
  /\ name # host.default
  /\ name = NoName \/ \E i \in DOMAIN host.printers : host.printers[i].name = name
  /\ host' = [host EXCEPT !.default = name]

\* a printer is removed; the default goes with it
HostRemove(i) ==
  /\ i \in DOMAIN host.printers
  /\ host' = [printers |-> RemoveAt(host.printers, i),
              default |-> IF host.default = host.printers[i].name THEN NoName
                          ELSE host.default]

\* a printer is installed
HostAdd(p) ==
  /\ \A i \in DOMAIN host.printers : host.printers[i].name # p.name
  /\ host' = [host EXCEPT !.printers = Append(host.printers, p)]

HostChange ==
  /\ hostChanges < MaxHostChanges
  /\ hostChanges' = hostChanges + 1
  /\ \/ \E i \in 1..Cardinality(PrinterNames), st \in Statuses : HostSetStatus(i, st)
     \/ \E name \in PrinterNames \cup {NoName} : HostSetDefault(name)
     \/ \E i \in 1..Cardinality(PrinterNames) : HostRemove(i)
     \/ \E p \in HostPrinters : HostAdd(p)
  /\ UNCHANGED <<registryVars, listVars, printVars, watcherVars>>

----------------------------------------------------------------------------
(* PrinterRegistry *)

InitRegistry(snap) ==
  /\ snapshot = snap
  /\ lastRefresh = "none"
  /\ prior = snap
  /\ latest = snap
  /\ observed = [read |-> FALSE, snap |-> <<>>, old |-> <<>>, new |-> <<>>]

\* a mutant of Install: the records are updated in place, one at a time, and
\* a reader gets in after the first
InstallInPlace(old, new) ==
  [i \in DOMAIN new |-> IF i > 1 /\ i \in DOMAIN old THEN old[i] ELSE new[i]]

\* the snapshot after a successful enumeration: the new one, as a whole
Install(old, new) == new

\* refresh() succeeds with the enumeration of host state h
RefreshOk(h) ==
  /\ snapshot' = Install(snapshot, Enumerate(h))
  /\ prior' = snapshot
  /\ latest' = Enumerate(h)
  /\ lastRefresh' = "ok"

\* refresh() fails: the snapshot is kept, the failure is signalled
RefreshFailed ==
  /\ lastRefresh' = "failed"
  /\ UNCHANGED <<snapshot, prior, latest>>

\* list(), get(), resolve() or a watcher tick reads the snapshot
Read ==
  /\ observed' = [read |-> TRUE, snap |-> snapshot, old |-> prior, new |-> latest]
  /\ UNCHANGED <<hostVars, snapshot, lastRefresh, prior, latest, listVars, printVars,
                 watcherVars>>

----------------------------------------------------------------------------
(* QueueWatcher *)

\* how many polling ticks a behaviour follows
MaxTicks == 2

\* a mutant of StartedWatchers: the server starts the watcher twice
StartedWatchersTwice == {"w1", "w2"}

\* the polling loops the server starts: watchAndResumePrinters() is called once
StartedWatchers == {"w1"}

\* what a tick knows of a printer before it has polled, and of a printer the
\* polled list does not hold
Unpolled == "Unpolled"

\* the status a snapshot gives for a name
StatusIn(snap, n) ==
  IF get(n, snap) = 0 THEN Unpolled ELSE snap[get(n, snap)].status

\* failed: the printers whose resume call failed in this tick;
\* retry: the printers whose resume call failed in the tick before
Asleep ==
  [pc |-> "sleeping", elapsed |-> FALSE, paused |-> {}, todo |-> <<>>,
   current |-> NoName, issued |-> [n \in PrinterNames |-> 0],
   polled |-> [n \in PrinterNames |-> Unpolled], failed |-> {}, retry |-> {}]

InitWatcher ==
  /\ watcher = [w \in StartedWatchers |-> Asleep]
  /\ inFlight = [n \in PrinterNames |-> 0]
  /\ ticks = 0

\* the names of the Paused printers of snap, in snapshot order
RECURSIVE PausedOrErrorNames(_)
\* a mutant of PausedNames: a printer in Error is resumed as well
PausedOrErrorNames(snap) ==
  IF snap = <<>> THEN <<>>
  ELSE IF Head(snap).status \in {"Paused", "Error"}
         THEN <<Head(snap).name>> \o PausedOrErrorNames(Tail(snap))
         ELSE PausedOrErrorNames(Tail(snap))

RECURSIVE PausedNames(_)
PausedNames(snap) ==
  IF snap = <<>> THEN <<>>
  ELSE IF Head(snap).status = "Paused"
         THEN <<Head(snap).name>> \o PausedNames(Tail(snap))
         ELSE PausedNames(Tail(snap))

\* the polling interval runs out, whether or not a tick is still in flight
IntervalElapses(w) ==
  /\ watcher[w].pc # "killed"
  /\ ~watcher[w].elapsed
  /\ watcher' = [watcher EXCEPT ![w].elapsed = TRUE]
  /\ UNCHANGED <<hostVars, registryVars, listVars, printVars, inFlight, ticks>>

\* the loop starts its next tick: the interval is over and no tick is in flight
TickStart(w) ==
  /\ watcher[w].pc = "sleeping"
  /\ watcher[w].elapsed
  /\ ticks < MaxTicks
  /\ ticks' = ticks + 1
  /\ watcher' = [watcher EXCEPT ![w] = [Asleep EXCEPT !.pc = "polling",
                                                     !.retry = watcher[w].failed]]
  /\ UNCHANGED <<hostVars, registryVars, listVars, printVars, inFlight>>

\* the tick's refresh succeeds: the Paused printers of the new snapshot are
\* the ones this tick resumes
PollOk(w) ==
  /\ watcher[w].pc = "polling"
  /\ RefreshOk(host)
  /\ LET todo == PausedNames(snapshot')
     IN  watcher' = [watcher EXCEPT ![w].pc = IF todo = <<>> THEN "sleeping" ELSE "resuming",
                                    ![w].paused = Range(todo),
                                    ![w].todo = todo,
                                    ![w].polled = [n \in PrinterNames |->
                                                     StatusIn(snapshot', n)]]
  /\ UNCHANGED <<hostVars, observed, listVars, printVars, inFlight, ticks>>

\* the tick's refresh fails: logged, the tick is over
PollFailed(w) ==
  /\ watcher[w].pc = "polling"
  /\ RefreshFailed
  /\ watcher' = [watcher EXCEPT ![w].pc = "sleeping"]
  /\ UNCHANGED <<hostVars, observed, listVars, printVars, inFlight, ticks>>

\* the tick issues the resume command for its next Paused printer
ResumeIssue(w) ==
  /\ watcher[w].pc = "resuming"
  /\ LET n == Head(watcher[w].todo)
     IN  /\ watcher' = [watcher EXCEPT ![w].pc = "awaitResume",
                                        ![w].todo = Tail(@),
                                        ![w].current = n,
                                        ![w].issued[n] = @ + 1]
         /\ inFlight' = [inFlight EXCEPT ![n] = @ + 1]
  /\ UNCHANGED <<hostVars, registryVars, listVars, printVars, ticks>>

\* the host after resume(name) took effect: a Paused queue is released
Resumed(h, name) ==
  [h EXCEPT !.printers =
     [i \in DOMAIN h.printers |->
        IF h.printers[i].name = name /\ h.printers[i].status = "Paused"
          THEN [h.printers[i] EXCEPT !.status = "Idle"]
          ELSE h.printers[i]]]

\* a mutant of ResumeDone: a failed resume is tried again in the same tick
ResumeDoneRetryNow(w, ok) ==
  /\ watcher[w].pc = "awaitResume"
  /\ LET n == watcher[w].current
     IN  /\ inFlight' = [inFlight EXCEPT ![n] = @ - 1]
         /\ host' = IF ok THEN Resumed(host, n) ELSE host
         /\ watcher' = [watcher EXCEPT
               ![w].pc = IF watcher[w].todo = <<>> /\ ok THEN "sleeping" ELSE "resuming",
               ![w].todo = IF ok \/ watcher[w].issued[n] > 1 THEN @ ELSE <<n>> \o @,
               ![w].current = NoName,
               ![w].failed = IF ok THEN @ ELSE @ \cup {n}]
  /\ UNCHANGED <<hostChanges, registryVars, listVars, printVars, ticks>>

\* the resume call returns; a failure is logged and left to the next tick
ResumeDone(w, ok) ==
  /\ watcher[w].pc = "awaitResume"
  /\ LET n == watcher[w].current
     IN  /\ inFlight' = [inFlight EXCEPT ![n] = @ - 1]
         /\ host' = IF ok THEN Resumed(host, n) ELSE host
         /\ watcher' = [watcher EXCEPT
               ![w].pc = IF watcher[w].todo = <<>> THEN "sleeping" ELSE "resuming",
               ![w].current = NoName,
               ![w].failed = IF ok THEN @ ELSE @ \cup {n}]
  /\ UNCHANGED <<hostChanges, registryVars, listVars, printVars, ticks>>

\* the service is shut down: the start script kills the server process
\* (kill -9 on its port, kill of the backend pid); server.ts keeps no handle of
\* the loop it started and installs no signal handler, so every loop ends
\* where it stands
ServerKilled ==
  /\ \E w \in DOMAIN watcher : watcher[w].pc # "killed"
  /\ watcher' = [w \in DOMAIN watcher |-> [watcher[w] EXCEPT !.pc = "killed"]]
  /\ UNCHANGED <<hostVars, registryVars, listVars, printVars, inFlight, ticks>>

----------------------------------------------------------------------------
(* GET /api/printers *)

InitList ==
  /\ listReq = [pc |-> "idle"]
  /\ listResp = [status |-> 0, printers |-> <<>>, error |-> ""]

\* a mutant of ToJson: isDefault is copied from the wrong field
ToJsonDefaultFromUSB(p) ==
  [name |-> p.name, isDefault |-> p.isUSB, isUSB |-> p.isUSB, status |-> p.status]

\* the handler's JSON of one printer
ToJson(p) ==
  [name |-> p.name, isDefault |-> p.isDefault, isUSB |-> p.isUSB, status |-> p.status]

ToJsonAll(printers) == [i \in DOMAIN printers |-> ToJson(printers[i])]

\* the handler is entered and awaits getAllPrinters()
GetPrintersBegin ==
  /\ listReq.pc = "idle"
  /\ listReq' = [pc |-> "enumerating"]
  /\ UNCHANGED <<hostVars, registryVars, listResp, printVars, watcherVars>>

\* getAllPrinters() returns the refreshed list, which the handler answers
GetPrintersOk ==
  /\ listReq.pc = "enumerating"
  /\ RefreshOk(host)
  /\ listReq' = [pc |-> "idle"]
  /\ listResp' = [status |-> 200, printers |-> ToJsonAll(snapshot'), error |-> ""]
  /\ UNCHANGED <<hostVars, observed, printVars, watcherVars>>

\* getAllPrinters() throws, the handler answers the error with status 500
GetPrintersFailed ==
  /\ listReq.pc = "enumerating"
  /\ RefreshFailed
  /\ listReq' = [pc |-> "idle"]
  /\ listResp' = [status |-> 500, printers |-> <<>>, error |-> "RegistryRefreshFailed"]
  /\ UNCHANGED <<hostVars, observed, printVars, watcherVars>>

----------------------------------------------------------------------------
(* POST /api/print and the JobSubmitter *)

\* the printer name of a request: the X-Printer-Name header, else ?printer=
PrinterNameOf(header, query) == IF header # NoName THEN header ELSE query

\* a mutant of HandlePrint: printImage is called whether or not a name was given
HandlePrintAlwaysNamed(printerName, snap) == printImageTarget(printerName, snap)

\* a mutant of HandlePrint: the two branches are swapped
HandlePrintSwapped(printerName, snap) ==
  IF printerName = NoName THEN printImageTarget(printerName, snap)
  ELSE printToUSBTarget(snap)

\* a mutant of HandlePrint: a name that does not resolve falls back to printToUSB
HandlePrintFallThrough(printerName, snap) ==
  IF printerName # NoName /\ printImageTarget(printerName, snap).ok
    THEN printImageTarget(printerName, snap)
    ELSE printToUSBTarget(snap)

\* the handler's choice between printImage and printToUSB
HandlePrint(printerName, snap) ==
  IF printerName # NoName THEN printImageTarget(printerName, snap)
  ELSE printToUSBTarget(snap)

\* the copies option the handler passes
HandlerCopies == 1

\* a mutant of HandlerResponse: a failure is answered as a success
HandlerResponseSwallow(r) ==
  [status |-> 200, printerName |-> r.printerName, jobId |-> r.jobId, error |-> ""]

\* the handler's answer: the result as JSON, or the caught error with status 500
HandlerResponse(r) ==
  IF r.ok
    THEN [status |-> 200, printerName |-> r.printerName, jobId |-> r.jobId, error |-> ""]
    ELSE [status |-> 500, printerName |-> NoName, jobId |-> 0, error |-> r.error]

Failure(e) == [ok |-> FALSE, printerName |-> NoName, jobId |-> 0, error |-> e]

\* the submission ends: its caller gets r, an HTTP caller the handler's answer
Return(rq, r) ==
  /\ req' = [rq EXCEPT !.pc = "responded"]
  /\ result' = r
  /\ resp' = IF rq.via = "http" THEN HandlerResponse(r) ELSE resp

\* a request as it enters the handler or the submitter
Request(via, hint, copies) ==
  [pc |-> "received", via |-> via, hint |-> hint, copies |-> copies,
   printerName |-> NoName, isUSB |-> FALSE]

\* a mutant of Submit: the options are validated after the transport call is issued
SubmitValidateLate(rq, target) ==
  /\ job' = [printerName |-> target.printerName, copies |-> rq.copies,
             status |-> IF rq.copies <= 0 THEN "Failed" ELSE "Submitted", written |-> "none"]
  /\ transportCalls' = 1
  /\ IF rq.copies <= 0
       THEN Return(rq, Failure("InvalidOptions"))
       ELSE /\ req' = [rq EXCEPT !.pc = "transport", !.printerName = target.printerName,
                                 !.isUSB = target.isUSB]
            /\ result' = NoResult
            /\ resp' = IF rq.via = "http" THEN NoResponse ELSE resp

\* submit(target, image, options) up to its transport call: the options are
\* validated, then the job is created and the device write (USB-direct path)
\* or the spooler enqueue (spooler path) is issued
Submit(rq, target) ==
  IF rq.copies <= 0
    THEN /\ Return(rq, Failure("InvalidOptions"))
         /\ job' = NoJob
         /\ transportCalls' = 0
    ELSE /\ req' = [rq EXCEPT !.pc = "transport", !.printerName = target.printerName,
                              !.isUSB = target.isUSB]
         /\ job' = [printerName |-> target.printerName, copies |-> rq.copies,
                    status |-> "Submitted", written |-> "none"]
         /\ transportCalls' = 1
         /\ result' = NoResult
         /\ resp' = IF rq.via = "http" THEN NoResponse ELSE resp

\* POST /api/print arrives: the handler picks the printer name, calls
\* printImage or printToUSB, which resolves the target and submits the job
ReceivePrint(header, query) ==
  LET printerName == PrinterNameOf(header, query)
      target == HandlePrint(printerName, snapshot)
      rq == Request("http", printerName, HandlerCopies)
  IN  /\ req.pc # "transport"
      /\ IF target.ok
           THEN Submit(rq, target)
           ELSE /\ Return(rq, Failure(target.error))
                /\ job' = NoJob
                /\ transportCalls' = 0
      /\ UNCHANGED <<hostVars, registryVars, listVars, watcherVars, usb>>

TransportOutcomes == {"ok", "partial", "fail"}

\* the device write or the spooler enqueue completes
TransportDone(outcome) ==
  /\ req.pc = "transport"
  /\ outcome = "partial" => req.isUSB
  /\ IF outcome = "ok"
       THEN /\ job' = [job EXCEPT !.status = IF req.isUSB THEN "Completed" ELSE "Queued",
                                  !.written = "all"]
            /\ Return(req, [ok |-> TRUE, printerName |-> req.printerName,
                                jobId |-> 1, error |-> ""])
       ELSE /\ job' = [job EXCEPT !.status = "Failed",
                                  !.written = IF outcome = "partial" THEN "partial" ELSE "none"]
            /\ Return(req, Failure(IF req.isUSB THEN "TransportWriteFailed"
                                   ELSE "SpoolerRejected"))
  /\ UNCHANGED <<hostVars, registryVars, listVars, watcherVars, transportCalls, usb>>

\* a mutant of SubmitTimeout: submit carries no timeout
SubmitNoTimeout ==
  /\ req.pc = "transport"
  /\ FALSE
  /\ UNCHANGED serverVars

\* the overall timeout of submit runs out before the device write or the
\* spooler enqueue has completed: the submission ends with SubmissionTimeout
SubmitTimeout ==
  /\ req.pc = "transport"
  /\ job' = [job EXCEPT !.status = "Failed"]
  /\ Return(req, Failure("SubmissionTimeout"))
  /\ UNCHANGED <<hostVars, registryVars, listVars, watcherVars, transportCalls, usb>>

\* submit is applied to a resolved target with the caller's copies option
SubmitCall(i, copies) ==
  /\ req.pc # "transport"
  /\ i \in DOMAIN snapshot
  /\ Usable(snapshot[i])
  /\ Submit(Request("direct", snapshot[i].name, copies), Resolved(snapshot[i]))
  /\ UNCHANGED <<hostVars, registryVars, listVars, watcherVars, usb>>

\* the copies options a caller of submit can pass
CopiesValues == {-1, 0, 1, 2}

----------------------------------------------------------------------------
(* Concurrent print requests on the USB-direct path *)

notUsb == <<hostVars, registryVars, listVars, watcherVars, req, job, transportCalls,
             result, resp>>

\* POST /api/print arrives while other requests are being handled: the handler
\* resolves the target; a USB-direct job asks for the lock of its device
UsbReceive(r, header, query) ==
  LET target == HandlePrint(PrinterNameOf(header, query), snapshot)
  IN  /\ usb.reqs[r].pc = "idle"
      /\ target.ok /\ target.isUSB
      /\ usb' = [usb EXCEPT !.reqs[r] = [pc |-> "waiting",
                                         printerName |-> target.printerName, sent |-> 0]]
      /\ UNCHANGED notUsb

\* a mutant of UsbAcquire: the device is written to without holding its lock
UsbAcquireUnlocked(r) ==
  LET n == usb.reqs[r].printerName
  IN  /\ usb.reqs[r].pc = "waiting"
      /\ usb' = [usb EXCEPT !.reqs[r].pc = "writing",
                            !.lock[n] = r,
                            !.acquired[n] = Append(@, r)]
      /\ UNCHANGED notUsb

\* a waiting job gets the lock of its device once it is free
UsbAcquire(r) ==
  LET n == usb.reqs[r].printerName
  IN  /\ usb.reqs[r].pc = "waiting"
      /\ usb.lock[n] = 0
      /\ usb' = [usb EXCEPT !.reqs[r].pc = "writing",
                            !.lock[n] = r,
                            !.acquired[n] = Append(@, r)]
      /\ UNCHANGED notUsb

\* the job writes its next chunk to the device
UsbWrite(r) ==
  LET n == usb.reqs[r].printerName
  IN  /\ usb.reqs[r].pc = "writing"
      /\ usb.reqs[r].sent < ChunksPerJob
      /\ usb' = [usb EXCEPT !.reqs[r].sent = @ + 1,
                            !.stream[n] = Append(@, <<r, usb.reqs[r].sent + 1>>)]
      /\ UNCHANGED notUsb

\* the job ends, all chunks written (ok) or a write failed, and gives the
\* lock back
UsbRelease(r, ok) ==
  LET n == usb.reqs[r].printerName
  IN  /\ usb.reqs[r].pc = "writing"
      /\ ok <=> usb.reqs[r].sent = ChunksPerJob
      /\ usb' = [usb EXCEPT !.reqs[r].pc = IF ok THEN "completed" ELSE "failed",
                            !.lock[n] = IF @ = r THEN 0 ELSE @]
      /\ UNCHANGED notUsb

\* the host of the concurrent requests: two idle USB printers, A the default
UsbHost ==
  [printers |-> <<[name |-> "A", isUSB |-> TRUE, status |-> "Idle"],
                  [name |-> "B", isUSB |-> TRUE, status |-> "Idle"]>>,
   default |-> "A"]

----------------------------------------------------------------------------
(* The browser client *)

\* how many resetRecorder() calls, and how many stop events, can be pending
MaxPending == 2

\* the page is loaded: no recorder yet, resetRecorder() has been called and
\* waits for getUserMedia
InitRecorder ==
  [mediaRecorder |-> "null", tracksLive |-> FALSE, resets |-> 1, stops |-> 0,
   isProcessing |-> FALSE, transcribing |-> 0, generating |-> 0,
   pressed |-> FALSE, recordingTimeout |-> FALSE,
   lastStart |-> "none", ignored |-> FALSE, thrown |-> FALSE]

\* the page is loaded: the selection is read from localStorage
InitClient(item) ==
  /\ stored = item
  /\ selectedPrinter = item
  /\ options = <<>>
  /\ selectValue = NoName
  /\ loadPc = "start"
  /\ currentImageBlob = FALSE
  /\ printBtn = [shown |-> FALSE, disabled |-> FALSE, text |-> "Print Sticker"]
  /\ printPc = "ready"
  /\ printHeader = NoName
  /\ clientSends = 0
  /\ alertMsg = ""
  /\ rec = InitRecorder

printClientVars == <<printBtn, printPc, printHeader, clientSends, alertMsg>>

loadClientVars == <<stored, selectedPrinter, options, selectValue, loadPc>>

\* loadPrinters() sends GET /api/printers
LoadPrintersFetch ==
  /\ loadPc = "start"
  /\ loadPc' = "sent"
  /\ UNCHANGED <<serverVars, stored, selectedPrinter, options, selectValue,
                 currentImageBlob, rec, printClientVars>>

\* the server takes up the client's GET /api/printers
ServeLoadPrinters ==
  /\ loadPc = "sent"
  /\ loadPc' = "awaiting"
  /\ GetPrintersBegin
  /\ UNCHANGED <<stored, selectedPrinter, options, selectValue, currentImageBlob, rec,
                 printClientVars>>

\* a select option of a listed printer
PrinterOption(p) == [value |-> p.name, text |-> "printer"]

\* the single option shown in place of printers
Notice(text) == <<[value |-> NoName, text |-> text]>>

\* printerSelect.value after v is assigned to it: v if an option has it
Selected(opts, v) == IF \E i \in DOMAIN opts : opts[i].value = v THEN v ELSE NoName

\* loadPrinters() gets the response and fills the select
LoadPrintersDone ==
  /\ loadPc = "awaiting"
  /\ listReq.pc = "idle"
  /\ loadPc' = "done"
  /\ LET printers == listResp.printers
         opts == [i \in DOMAIN printers |-> PrinterOption(printers[i])]
         d == FirstIndex({i \in DOMAIN printers : printers[i].isDefault})
     IN  IF listResp.status # 200
           THEN /\ options' = Notice("Error loading printers")
                /\ selectValue' = NoName
                /\ UNCHANGED <<selectedPrinter, stored>>
         ELSE IF Len(printers) = 0
           THEN /\ options' = Notice("No printers found")
                /\ selectValue' = NoName
                /\ UNCHANGED <<selectedPrinter, stored>>
         ELSE /\ options' = opts
              /\ IF selectedPrinter # NoName
                   THEN /\ selectValue' = Selected(opts, selectedPrinter)
                        /\ UNCHANGED <<selectedPrinter, stored>>
                   ELSE IF d # 0
                          THEN /\ selectValue' = printers[d].name
                               /\ selectedPrinter' = printers[d].name
                               /\ stored' = printers[d].name
                          ELSE /\ selectValue' = opts[1].value
                               /\ UNCHANGED <<selectedPrinter, stored>>
  /\ UNCHANGED <<serverVars, currentImageBlob, rec, printClientVars>>

\* a mutant of SelectChange: the new selection is not written to localStorage
SelectChangeUnsaved(v) ==
  /\ v # selectValue
  /\ \E i \in DOMAIN options : options[i].value = v
  /\ selectValue' = v
  /\ selectedPrinter' = v
  /\ UNCHANGED <<serverVars, stored, options, loadPc, currentImageBlob, rec, printClientVars>>

\* the user picks another option of the printer select: the change handler
\* takes the select's value as the selection and stores it
SelectChange(v) ==
  /\ v # selectValue
  /\ \E i \in DOMAIN options : options[i].value = v
  /\ selectValue' = v
  /\ selectedPrinter' = v
  /\ stored' = v
  /\ UNCHANGED <<serverVars, options, loadPc, currentImageBlob, rec, printClientVars>>

\* a generated image arrives: it is kept and the print button is shown
ImageGenerated ==
  /\ currentImageBlob' = TRUE
  /\ printBtn' = [printBtn EXCEPT !.shown = TRUE]
  /\ UNCHANGED <<serverVars, loadClientVars, printPc, printHeader, clientSends, alertMsg,
                 rec>>

\* a mutant of PrintClick: the button stays enabled while the request is out
PrintClickNotDisabled ==
  /\ printBtn.shown /\ ~printBtn.disabled
  /\ IF ~currentImageBlob
       THEN /\ alertMsg' = "No image to print!"
            /\ UNCHANGED <<printBtn, printPc, printHeader, clientSends>>
       ELSE /\ printBtn' = [printBtn EXCEPT !.text = "Printing..."]
            /\ printHeader' = selectedPrinter
            /\ printPc' = "sent"
            /\ clientSends' = 1
            /\ alertMsg' = ""
  /\ UNCHANGED <<serverVars, loadClientVars, currentImageBlob, rec>>

\* the print button is clicked: the request is sent with the selected printer
PrintClick ==
  /\ printBtn.shown /\ ~printBtn.disabled
  /\ IF ~currentImageBlob
       THEN /\ alertMsg' = "No image to print!"
            /\ UNCHANGED <<printBtn, printPc, printHeader, clientSends>>
       ELSE /\ printBtn' = [printBtn EXCEPT !.disabled = TRUE, !.text = "Printing..."]
            /\ printHeader' = selectedPrinter
            /\ printPc' = "sent"
            /\ clientSends' = 1
            /\ alertMsg' = ""
  /\ UNCHANGED <<serverVars, loadClientVars, currentImageBlob, rec>>

\* the server takes up the client's POST /api/print
ServePrint ==
  /\ printPc = "sent"
  /\ printPc' = "awaiting"
  /\ ReceivePrint(printHeader, NoName)
  /\ UNCHANGED <<loadClientVars, currentImageBlob, rec, printBtn, printHeader, clientSends,
                 alertMsg>>

\* a mutant of PrintResponse: a failed request is sent again
PrintResponseResubmit ==
  /\ printPc = "awaiting"
  /\ req.pc = "responded"
  /\ IF resp.status = 200
       THEN /\ printBtn' = [printBtn EXCEPT !.text = "Printed!"]
            /\ printPc' = "cooldown"
            /\ UNCHANGED <<alertMsg, clientSends>>
       ELSE /\ printPc' = "sent"
            /\ clientSends' = clientSends + 1
            /\ UNCHANGED <<alertMsg, printBtn>>
  /\ UNCHANGED <<serverVars, loadClientVars, currentImageBlob, rec, printHeader>>

\* the click handler gets the response: "Printed!", or an alert and
\* "Print Failed"; either way a timer is set to re-enable the button
PrintResponse ==
  /\ printPc = "awaiting"
  /\ req.pc = "responded"
  /\ printPc' = "cooldown"
  /\ IF resp.status = 200
       THEN /\ printBtn' = [printBtn EXCEPT !.text = "Printed!"]
            /\ UNCHANGED alertMsg
       ELSE /\ printBtn' = [printBtn EXCEPT !.text = "Print Failed"]
            /\ alertMsg' = "Failed to print"
  /\ UNCHANGED <<serverVars, loadClientVars, currentImageBlob, rec, printHeader, clientSends>>

\* the timer fires: the button is enabled again
PrintReenable ==
  /\ printPc = "cooldown"
  /\ printPc' = "ready"
  /\ printBtn' = [printBtn EXCEPT !.text = "Print Sticker", !.disabled = FALSE]
  /\ UNCHANGED <<serverVars, loadClientVars, currentImageBlob, rec, printHeader, clientSends,
                 alertMsg>>

----------------------------------------------------------------------------
(* The browser client: recording and the processing pipeline *)

notRec ==
  <<serverVars, loadClientVars, printPc, printHeader, clientSends, alertMsg>>

\* resetRecorder() gets its stream (ok) and installs a new recorder, or
\* getUserMedia rejects and the recorder stays what it was
ResetRecorderDone(ok) ==
  /\ rec.resets > 0
  /\ rec' = IF ok THEN [rec EXCEPT !.resets = @ - 1, !.mediaRecorder = "inactive",
                                   !.tracksLive = TRUE]
            ELSE [rec EXCEPT !.resets = @ - 1]
  /\ UNCHANGED <<notRec, currentImageBlob, printBtn>>

\* what the handlers do to stop: a recording recorder is stopped, which queues
\* its stop event, and the tracks of its stream are stopped
StopIfRecording(r) ==
  IF r.mediaRecorder = "recording"
    THEN [r EXCEPT !.mediaRecorder = "inactive", !.tracksLive = FALSE, !.stops = @ + 1]
    ELSE r

\* the kind of recorder a press calls start() on
StartedOn(r) ==
  IF r.mediaRecorder = "null" THEN "null"
  ELSE IF r.mediaRecorder = "recording" THEN "recording"
  ELSE IF r.tracksLive THEN "fresh" ELSE "stopped"

\* pointerdown on the record button: start() is called on the current
\* recorder. It throws on no recorder and on a recording one, starts a recorder
\* with live tracks, and does the one or the other, depending on the browser,
\* on a recorder whose tracks were stopped; the auto-stop timer is set only
\* when start() returned
PointerDown(starts) ==
  /\ ~rec.pressed
  /\ starts => rec.mediaRecorder = "inactive"
  /\ ~starts => StartedOn(rec) # "fresh"
  /\ rec' = IF starts
              THEN [rec EXCEPT !.pressed = TRUE, !.lastStart = StartedOn(rec),
                               !.mediaRecorder = "recording", !.recordingTimeout = TRUE]
              ELSE [rec EXCEPT !.pressed = TRUE, !.lastStart = StartedOn(rec)]
  /\ UNCHANGED <<notRec, currentImageBlob, printBtn>>

\* pointerup on the record button: the timer is cleared, a recording is stopped
PointerUp ==
  /\ rec.pressed
  /\ rec.mediaRecorder = "recording" => rec.stops < MaxPending
  /\ rec' = [StopIfRecording(rec) EXCEPT !.pressed = FALSE, !.recordingTimeout = FALSE]
  /\ UNCHANGED <<notRec, currentImageBlob, printBtn>>

\* pointerleave: the pointer leaves the button, held or not; same as pointerup
PointerLeave ==
  /\ rec.pressed \/ rec.recordingTimeout \/ rec.mediaRecorder = "recording"
  /\ rec.mediaRecorder = "recording" => rec.stops < MaxPending
  /\ rec' = [StopIfRecording(rec) EXCEPT !.pressed = FALSE, !.recordingTimeout = FALSE]
  /\ UNCHANGED <<notRec, currentImageBlob, printBtn>>

\* the auto-stop timer fires: the recorder that is current now is stopped if
\* it is recording
AutoStop ==
  /\ rec.recordingTimeout
  /\ rec.mediaRecorder = "recording" => rec.stops < MaxPending
  /\ rec' = [StopIfRecording(rec) EXCEPT !.recordingTimeout = FALSE]
  /\ UNCHANGED <<notRec, currentImageBlob, printBtn>>

\* a mutant of OnStop: the handler does not look at isProcessing
OnStopUnguarded ==
  /\ rec.stops > 0
  /\ rec' = [rec EXCEPT !.stops = @ - 1, !.isProcessing = TRUE, !.transcribing = @ + 1]
  /\ UNCHANGED <<notRec, currentImageBlob, printBtn>>

\* a stop event is delivered: onstop returns at once while isProcessing is
\* set, else it sets the flag and calls the transcriber
OnStop ==
  /\ rec.stops > 0
  /\ rec' = IF rec.isProcessing
              THEN [rec EXCEPT !.stops = @ - 1, !.ignored = TRUE]
              ELSE [rec EXCEPT !.stops = @ - 1, !.isProcessing = TRUE,
                               !.transcribing = @ + 1]
  /\ UNCHANGED <<notRec, currentImageBlob, printBtn>>

TranscribeOutcomes == {"text", "cancel", "throws"}

\* the awaited transcriber call ends: with a text to generate from; with an
\* empty text or a cancel word, on which the flag is cleared and
\* resetRecorder() called; or by throwing, which ends the handler where it is
TranscribeDone(outcome) ==
  /\ rec.transcribing > 0
  /\ outcome = "cancel" => rec.resets < MaxPending
  /\ rec' = IF outcome = "text"
              THEN [rec EXCEPT !.transcribing = @ - 1, !.generating = @ + 1]
            ELSE IF outcome = "cancel"
              THEN [rec EXCEPT !.transcribing = @ - 1, !.isProcessing = FALSE,
                               !.resets = @ + 1]
            ELSE [rec EXCEPT !.transcribing = @ - 1, !.thrown = TRUE]
  /\ UNCHANGED <<notRec, currentImageBlob, printBtn>>

\* the request to /api/generate ends: the image is kept and the print button
\* shown (ok), or the error is shown; either way the flag is cleared and
\* resetRecorder() is set to run after 100 ms
GenerateDone(ok) ==
  /\ rec.generating > 0
  /\ rec.resets < MaxPending
  /\ rec' = [rec EXCEPT !.generating = @ - 1, !.isProcessing = FALSE, !.resets = @ + 1]
  /\ currentImageBlob' = (ok \/ currentImageBlob)
  /\ printBtn' = [printBtn EXCEPT !.shown = ok \/ @]
  /\ UNCHANGED notRec

\* the hosts the client is run against: any printers, each Idle or Offline
ClientHosts ==
  {h \in Hosts : \A i \in DOMAIN h.printers : h.printers[i].status \in {"Idle", "Offline"}}

(* One browser client and the server *)
InitClientSpec ==
  /\ host \in ClientHosts
  /\ hostChanges = 0
  /\ InitRegistry(Enumerate(host))
  /\ InitList
  /\ InitPrint
  /\ InitWatcher
  /\ \E item \in Hints : InitClient(item)

NextClient ==
  \/ LoadPrintersFetch
  \/ ServeLoadPrinters
  \/ GetPrintersOk /\ UNCHANGED clientVars
  \/ GetPrintersFailed /\ UNCHANGED clientVars
  \/ LoadPrintersDone
  \/ \E v \in PrinterNames : SelectChange(v)
  \/ ImageGenerated
  \/ PrintClick
  \/ ServePrint
  \/ \E outcome \in TransportOutcomes : TransportDone(outcome) /\ UNCHANGED clientVars
  \/ SubmitTimeout /\ UNCHANGED clientVars
  \/ PrintResponse
  \/ PrintReenable

SpecClient == InitClientSpec /\ [][NextClient]_vars

\* the click handler runs on when its fetch has settled, and its timer fires
SpecClientLive ==
  InitClientSpec /\ [][NextClient]_vars /\ WF_vars(PrintResponse) /\ WF_vars(PrintReenable)

(* The record button, the recorder and the processing pipeline of one client *)
InitRecorderSpec ==
  /\ host = ScenarioHost
  /\ hostChanges = 0
  /\ InitRegistry(Enumerate(host))
  /\ InitList
  /\ InitPrint
  /\ InitWatcher
  /\ \E item \in {NoName} : InitClient(item)

NextRecorder ==
  \/ \E ok \in BOOLEAN : ResetRecorderDone(ok)
  \/ \E starts \in BOOLEAN : PointerDown(starts)
  \/ PointerUp
  \/ PointerLeave
  \/ AutoStop
  \/ OnStop
  \/ \E outcome \in TranscribeOutcomes : TranscribeDone(outcome)
  \/ \E ok \in BOOLEAN : GenerateDone(ok)

SpecRecorder == InitRecorderSpec /\ [][NextRecorder]_vars

(* The print requests of any HTTP caller against any snapshot *)
InitPrintSpec ==
  /\ host \in Hosts
  /\ hostChanges = 0
  /\ InitRegistry(Enumerate(host))
  /\ InitList
  /\ InitPrint
  /\ InitWatcher
  /\ \E item \in {NoName} : InitClient(item)

NextPrint ==
  \/ \E header, query \in Hints : ReceivePrint(header, query) /\ UNCHANGED clientVars
  \/ \E outcome \in TransportOutcomes : TransportDone(outcome) /\ UNCHANGED clientVars
  \/ SubmitTimeout /\ UNCHANGED clientVars

SpecPrint == InitPrintSpec /\ [][NextPrint]_vars

\* the timer of submit's timeout fires; the device write or the enqueue it
\* guards may never return
SubmitTimerFires == SubmitTimeout /\ UNCHANGED clientVars

SpecPrintLive == InitPrintSpec /\ [][NextPrint]_vars /\ WF_vars(SubmitTimerFires)

(* The submitter applied to any resolved target and any options *)
NextSubmit ==
  \/ \E i \in 1..Cardinality(PrinterNames), copies \in CopiesValues :
       SubmitCall(i, copies) /\ UNCHANGED clientVars
  \/ \E outcome \in TransportOutcomes : TransportDone(outcome) /\ UNCHANGED clientVars
  \/ SubmitTimeout /\ UNCHANGED clientVars

SpecSubmit == InitPrintSpec /\ [][NextSubmit]_vars

(* Print requests handled at the same time on the USB-direct path *)
InitUsbSpec ==
  /\ host = UsbHost
  /\ hostChanges = 0
  /\ InitRegistry(Enumerate(host))
  /\ InitList
  /\ InitPrint
  /\ InitWatcher
  /\ \E item \in {NoName} : InitClient(item)

NextUsb ==
  \/ \E r \in Requests, header, query \in Hints :
       UsbReceive(r, header, query) /\ UNCHANGED clientVars
  \/ \E r \in Requests : UsbAcquire(r) /\ UNCHANGED clientVars
  \/ \E r \in Requests : UsbWrite(r) /\ UNCHANGED clientVars
  \/ \E r \in Requests, ok \in BOOLEAN : UsbRelease(r, ok) /\ UNCHANGED clientVars

SpecUsb == InitUsbSpec /\ [][NextUsb]_vars

(* The registry behind GET /api/printers on a host whose printers change *)
InitRegistrySpec ==
  /\ host = ScenarioHost
  /\ hostChanges = 0
  /\ InitRegistry(<<>>)
  /\ InitList
  /\ InitPrint
  /\ InitWatcher
  /\ \E item \in {NoName} : InitClient(item)

NextRegistry ==
  \/ HostChange /\ UNCHANGED clientVars
  \/ GetPrintersBegin /\ UNCHANGED clientVars
  \/ GetPrintersOk /\ UNCHANGED clientVars
  \/ GetPrintersFailed /\ UNCHANGED clientVars
  \/ Read /\ UNCHANGED clientVars

SpecRegistry == InitRegistrySpec /\ [][NextRegistry]_vars

(* The watcher's polling loop on a host whose printers change *)
InitWatcherSpec ==
  /\ host = ScenarioHost
  /\ hostChanges = 0
  /\ InitRegistry(<<>>)
  /\ InitList
  /\ InitPrint
  /\ InitWatcher
  /\ \E item \in {NoName} : InitClient(item)

NextWatcher ==
  \/ HostChange /\ UNCHANGED clientVars
  \/ \E w \in StartedWatchers : IntervalElapses(w) /\ UNCHANGED clientVars
  \/ \E w \in StartedWatchers : TickStart(w) /\ UNCHANGED clientVars
  \/ \E w \in StartedWatchers : PollOk(w) /\ UNCHANGED clientVars
  \/ \E w \in StartedWatchers : PollFailed(w) /\ UNCHANGED clientVars
  \/ \E w \in StartedWatchers : ResumeIssue(w) /\ UNCHANGED clientVars
  \/ \E w \in StartedWatchers, ok \in BOOLEAN : ResumeDone(w, ok) /\ UNCHANGED clientVars

SpecWatcher == InitWatcherSpec /\ [][NextWatcher]_vars

NextShutdown ==
  \/ NextWatcher
  \/ ServerKilled /\ UNCHANGED clientVars

\* the watcher and the shutdown of the service
SpecShutdown == InitWatcherSpec /\ [][NextShutdown]_vars

\* a step of a polling loop: its timer fires, its poll and its resume calls return
WatcherStep ==
  \E w \in StartedWatchers :
    \/ IntervalElapses(w) /\ UNCHANGED clientVars
    \/ TickStart(w) /\ UNCHANGED clientVars
    \/ PollOk(w) /\ UNCHANGED clientVars
    \/ PollFailed(w) /\ UNCHANGED clientVars
    \/ ResumeIssue(w) /\ UNCHANGED clientVars
    \/ \E ok \in BOOLEAN : ResumeDone(w, ok) /\ UNCHANGED clientVars

\* the loop keeps running: timers fire and awaited calls return
SpecWatcherLive == InitWatcherSpec /\ [][NextWatcher]_vars /\ WF_vars(WatcherStep)

----------------------------------------------------------------------------
(* Target resolution of a print request *)

\* an HTTP print request with neither a header nor a query name has been handled
NoHintHandled == req.via = "http" /\ req.pc # "idle" /\ req.hint = NoName

DefaultIndex(snap) == FirstIndex({i \in DOMAIN snap : snap[i].isDefault})

FirstUsableUSB(snap) == FirstIndex({i \in DOMAIN snap : snap[i].isUSB /\ Usable(snap[i])})

\* the request ended in an error before a job or a transport call was made
FailedWith(e) ==
  /\ req.pc = "responded"
  /\ resp.status = 500 /\ resp.error = e
  /\ job = NoJob /\ transportCalls = 0

PausedDefaultIdleUSB(d, u) ==
  /\ d \in DOMAIN snapshot /\ u \in DOMAIN snapshot /\ u # d
  /\ snapshot[d].isDefault /\ snapshot[d].status = "Paused"
  /\ snapshot[u].isUSB /\ snapshot[u].status = "Idle"

C3_NoDefaultFallsBackToUSB ==
  LET u == FirstUsableUSB(snapshot)
  IN  (NoHintHandled /\ DefaultIndex(snapshot) = 0)
        => IF u # 0
             THEN /\ job.printerName = snapshot[u].name
                  /\ (req.pc = "responded" /\ resp.status = 200
                        => resp.printerName = snapshot[u].name)
                  /\ (req.pc = "responded" /\ resp.status = 500
                        => resp.error \in {"TransportWriteFailed", "SubmissionTimeout"})
             ELSE FailedWith("NoUsablePrinter")

\* no default, the first USB printer is Offline, the second one got the job
C3_Witness ==
  /\ NoHintHandled /\ DefaultIndex(snapshot) = 0
  /\ Len(snapshot) = 2
  /\ snapshot[1].isUSB /\ snapshot[1].status = "Offline"
  /\ snapshot[2].isUSB /\ Usable(snapshot[2])
  /\ req.pc = "responded" /\ resp.status = 200 /\ resp.printerName = snapshot[2].name

\* C4: a request that names a printer the snapshot does not have fails with
\* PrinterNotFound and makes no job, whatever default or USB printers exist
C4_UnknownNameFails ==
  (req.via = "http" /\ req.pc # "idle" /\ req.hint # NoName /\ get(req.hint, snapshot) = 0)
    => FailedWith("PrinterNotFound")

\* the request named Z while a usable default and a usable USB printer existed
C4_Witness ==
  /\ req.via = "http" /\ req.hint = UnknownName
  /\ \E d, u \in DOMAIN snapshot :
       /\ snapshot[d].isDefault /\ Usable(snapshot[d])
       /\ snapshot[u].isUSB /\ Usable(snapshot[u]) /\ u # d
  /\ FailedWith("PrinterNotFound")

\* C7: submit with copies <= 0 fails with InvalidOptions, and no device write
\* or spooler enqueue has been issued for it
C7_InvalidCopiesRejectedFirst ==
  (req.pc # "idle" /\ req.copies <= 0)
    => /\ req.pc = "responded"
       /\ result = Failure("InvalidOptions")
       /\ transportCalls = 0
       /\ job = NoJob

\* submit was called for a usable USB printer with copies = 0 and for a usable
\* spooled printer with copies = -1
C7_Witness ==
  /\ req.via = "direct" /\ req.copies <= 0 /\ req.pc = "responded"
  /\ get(req.hint, snapshot) # 0
  /\ result.error = "InvalidOptions"

----------------------------------------------------------------------------
(* The registry snapshot *)

\* C5 as stated: after a failed refresh that follows a successful one, the
\* snapshot is the one of the last successful refresh and the list request
\* is answered with exactly that snapshot, not with an error
C5_FailedRefreshKeepsList ==
  (lastRefresh = "failed" /\ latest # <<>>)
    => /\ snapshot = latest
       /\ listResp.status = 200
       /\ listResp.printers = ToJsonAll(latest)

\* C9: what a reader of the snapshot sees is the complete snapshot from
\* before the last refresh or the complete enumeration that refresh got,
\* also while another refresh is in flight
C9_ReadersSeeCompleteSnapshot ==
  observed.read => observed.snap \in {observed.old, observed.new}

\* a reader ran while a refresh was in flight and saw the two printers of the
\* last enumeration, both different from the two of the snapshot before it
C9_Witness ==
  /\ observed.read /\ listReq.pc = "enumerating"
  /\ observed.snap = observed.new
  /\ Len(observed.old) = 2 /\ Len(observed.new) = 2
  /\ observed.old[1] # observed.new[1] /\ observed.old[2] # observed.new[2]

AtMostOneDefault(printers) ==
  \A i, j \in DOMAIN printers : (printers[i].isDefault /\ printers[j].isDefault) => i = j

NoDefault(printers) == \A i \in DOMAIN printers : ~printers[i].isDefault

\* a step in which a refresh succeeds and the list request is answered
RefreshSucceeds == listReq.pc = "enumerating" /\ listReq'.pc = "idle" /\ lastRefresh' = "ok"

\* C10: every snapshot, and every printer list answered from it, has at most
\* one printer with isDefault; a refresh on a host without a default printer
\* gives a snapshot and a list with isDefault false throughout
C10_AtMostOneDefault ==
  [][/\ AtMostOneDefault(snapshot') /\ AtMostOneDefault(listResp'.printers)
     /\ (RefreshSucceeds /\ host.default = NoName)
          => (NoDefault(snapshot') /\ NoDefault(listResp'.printers))]_vars

\* two USB printers were listed from a host that has no default printer
C10_Witness ==
  /\ listResp.status = 200 /\ Len(listResp.printers) = 2
  /\ listResp.printers[1].isUSB /\ listResp.printers[2].isUSB
  /\ host.default = NoName /\ lastRefresh = "ok" /\ snapshot = Enumerate(host)
  /\ NoDefault(listResp.printers)

----------------------------------------------------------------------------
(* The queue watcher *)

----------------------------------------------------------------------------
(* A failed USB write *)

\* C8: a print request whose USB write failed after part of the bytes were
\* written leaves a Failed job, is answered with TransportWriteFailed, raises
\* the client's alert, and stays the only write and the only request of its
\* click
C8_PartialUSBWriteFailsOnce ==
  (req.via = "http" /\ req.pc = "responded" /\ req.isUSB /\ job.written = "partial")
    => /\ job.status = "Failed"
       /\ result = Failure("TransportWriteFailed")
       /\ resp.status = 500 /\ resp.error = "TransportWriteFailed"
       /\ transportCalls = 1
       /\ clientSends = 1
       /\ printPc \in {"cooldown", "ready"} => alertMsg = "Failed to print"

\* the write to the USB printer failed half way, the client showed the alert
\* and its button is enabled again, with one request and one write made
C8_Witness ==
  /\ req.via = "http" /\ req.pc = "responded" /\ req.isUSB /\ job.written = "partial"
  /\ printPc = "ready" /\ ~printBtn.disabled
  /\ alertMsg = "Failed to print"
  /\ clientSends = 1 /\ transportCalls = 1

----------------------------------------------------------------------------
(* C11, C12: what the watcher resumes, and what it does after a failed resume *)

\* C11: a tick issues a resume only for a printer whose status in the list
\* that tick polled is Paused; a printer it polled as Idle, Printing, Unknown,
\* Error or Offline, or did not find, gets none.
C11_ResumeOnlyForPaused ==
  \A w \in DOMAIN watcher : \A n \in PrinterNames :
    (watcher[w].issued[n] > 0 \/ watcher[w].current = n)
      => watcher[w].polled[n] = "Paused"

\* a finished tick that resumed one printer and left one in Error or Offline alone
C11_Witness ==
  \E w \in DOMAIN watcher : \E n, m \in PrinterNames :
    /\ watcher[w].pc = "sleeping" /\ watcher[w].todo = <<>>
    /\ watcher[w].polled[n] = "Paused" /\ watcher[w].issued[n] = 1
    /\ watcher[w].polled[m] \in {"Error", "Offline"} /\ watcher[w].issued[m] = 0

\* a resume call of watcher w for printer n returns with a failure
ResumeFails(w, n) ==
  /\ n \notin watcher[w].failed
  /\ n \in watcher'[w].failed

----------------------------------------------------------------------------
(* C13: shutdown of the polling loop *)

\* the loop of watcher w ends in this step
LoopEnds(w) == watcher[w].pc # "killed" /\ watcher'[w].pc = "killed"

\* C13: shutdown is cooperative: a polling loop ends only between ticks, so a
\* tick in flight has run to completion before the loop terminates, and an
\* ended loop starts no tick and issues nothing any more.
C13_CooperativeShutdown ==
  [][\A w \in DOMAIN watcher :
       /\ LoopEnds(w) => watcher[w].pc = "sleeping"
       /\ watcher[w].pc = "killed" => watcher'[w] = watcher[w]]_vars

----------------------------------------------------------------------------
(* C14: concurrent requests for one USB-direct printer *)

\* the raw writes of the jobs in order, each job's chunks together and in sequence
RECURSIVE Writes(_)
Writes(order) ==
  IF order = <<>> THEN <<>>
  ELSE [i \in 1..usb.reqs[Head(order)].sent |-> <<Head(order), i>>] \o Writes(Tail(order))

----------------------------------------------------------------------------
(* C15: the timeout of submit *)

----------------------------------------------------------------------------
(* C16: the client's printer selection *)

\* the click handler sends its print request in this step
PrintRequestSent == printPc # "sent" /\ printPc' = "sent"

\* C16: the client's selected printer always equals what is stored under
\* 'selectedPrinter'; a print request carries the selection of the moment it
\* is sent as its X-Printer-Name header (no header when the selection is
\* empty), and that header is the printer name the server handles it with.
C16_SelectionPersistedAndSent ==
  /\ [](selectedPrinter = stored)
  /\ [][PrintRequestSent => printHeader' = selectedPrinter]_vars
  /\ []((printPc = "awaiting" /\ req.via = "http") => req.hint = printHeader)

\* the selection was changed away from what was loaded, and a print request
\* with the new selection is with the server
C16_Witness ==
  /\ loadPc = "done" /\ \E i \in DOMAIN options : options[i].value = "A"
  /\ selectedPrinter = "B" /\ stored = "B" /\ selectValue = "B"
  /\ \E i \in DOMAIN listResp.printers :
       listResp.printers[i].isDefault /\ listResp.printers[i].name = "A"
  /\ printPc = "awaiting" /\ req.via = "http" /\ req.hint = "B"

----------------------------------------------------------------------------
(* C17, C18, C19: the recorder and the processing pipeline *)

\* the pipelines, transcribing or generating, that are running
ActivePipelines == rec.transcribing + rec.generating

\* a stop event is delivered in this step
StopDelivered == rec'.stops = rec.stops - 1

\* C17: at most one processing pipeline is running at any time, and a stop
\* event delivered while isProcessing is set starts neither a transcription
\* nor a generation.
C17_OnePipelineAtATime ==
  /\ [](ActivePipelines <= 1)
  /\ [][(StopDelivered /\ rec.isProcessing) =>
          (rec'.transcribing = rec.transcribing /\ rec'.generating = rec.generating)]_vars

\* a stop event was ignored, and a pipeline is generating
C17_Witness ==
  /\ rec.ignored
  /\ rec.isProcessing /\ rec.generating = 1 /\ ~rec.thrown

\* C18 as stated: the processing flag is set only while a pipeline is running
\* that will clear it; a pipeline that has ended, whatever its outcome, has
\* left isProcessing false.
C18_PipelineClearsFlag ==
  rec.isProcessing => ActivePipelines >= 1

\* C19 as stated: no press has called start() on a recorder that was
\* recording or on one whose stream tracks had been stopped.
C19_StartOnlyOnFreshRecorder ==
  rec.lastStart \notin {"recording", "stopped"}

----------------------------------------------------------------------------
(* C20: the print button *)

\* C20: the print button is disabled from the moment the print request is
\* sent until after its outcome, so a request is sent only while none of this
\* client is in flight; once the request has succeeded or failed, the button
\* is enabled again.
C20_OnePrintRequestInFlight ==
  /\ [](printPc \in {"sent", "awaiting", "cooldown"} => printBtn.disabled)
  /\ [][PrintRequestSent => (printPc = "ready" /\ ~printBtn.disabled)]_vars
  /\ (printPc = "awaiting" /\ req.pc = "responded")
       ~> (printPc = "ready" /\ ~printBtn.disabled)

\* a print request succeeded and the button is back to "Print Sticker", enabled
C20_Witness ==
  /\ req.via = "http" /\ req.pc = "responded" /\ resp.status = 200
  /\ printPc = "ready" /\ clientSends = 1
  /\ printBtn = [shown |-> TRUE, disabled |-> FALSE, text |-> "Print Sticker"]

====
